---------------------------- MODULE Spec2Model ----------------------------
(***************************************************************************)
(* Model of the real-time event core of the collaborative chat server:     *)
(* server/src/events/socket.handler.ts (SocketEvents), the socket wiring   *)
(* of server.ts / socket.config.ts, MessageService.sendMessage and the     *)
(* process-level exception handlers of error.middleware.ts.                *)
(*                                                                         *)
(* Every `await` on a collaborator (database) call is a suspension point:  *)
(* a handler is split into one action per segment between two such        *)
(* awaits.  socket.join / socket.leave / emit do not suspend across I/O    *)
(* and belong to the segment that calls them.                              *)
(***************************************************************************)
EXTENDS Integers, Sequences, FiniteSets, TLC

\* ------------------------------------------------------------------ bounds
MaxConns == 2
MaxUsers == 2
MaxChannels == 2
MaxSends == 2
RoomConns == 1
MaxPubs == 2
MaxSubs == 2
MaxTopics == 2
MaxAttempts == 120
MaxLogins == 5
MaxTokens == 3

Conns == 1..MaxConns
Users == 1..MaxUsers
ChannelIds == 1..MaxChannels
NoUser == 0
Topics == 1..MaxTopics
PubIds == 1..MaxPubs

\* Names of the inbound events registered by registerEvents.
InboundEvents ==
  {"message:send", "message:typing", "message:read",
   "channel:join", "channel:leave", "presence:update"}

\* Status values a client may put in presence:update.
PresenceStatuses == {"online", "away", "busy", "offline"}

\* ------------------------------------------------------- directory (DB)
\* The channel table the directory queries read.  Channel 1 is public and
\* every user is a member of it; channel r > 1 is private with members
\* {u : u >= r}.
ChannelMembers(r) == {u \in Users : u >= r}

ChannelPrivate(r) == r > 1

\* Mutant of isUserMember: the membership check lets everybody through.
isUserMemberAnyone(r, u) == Cardinality(ChannelMembers(r)) >= 0

\* ChannelRepository.isUserMember: count of matching member rows > 0.
isUserMember(r, u) == Cardinality({m \in ChannelMembers(r) : m = u}) > 0

\* ChannelRepository.findUserChannels: the channels the user is member of.
findUserChannels(u) == {r \in ChannelIds : u \in ChannelMembers(r)}

\* ChannelService.joinChannel's admission rule: private channels reject.
canJoin(r, u) == ~ChannelPrivate(r)

\* ------------------------------------------------------------------ rooms
\* Room names: `user:${userId}` and `channel:${channelId}`.
UserRoom(u) == <<"user", u>>

\* Mutant of ChannelRoom: the channel id is used as the room name with the
\* personal rooms' prefix.
ChannelRoomAsUser(r) == <<"user", r>>

ChannelRoom(r) == <<"channel", r>>
Rooms == {UserRoom(u) : u \in Users} \cup {ChannelRoom(r) : r \in ChannelIds}

VARIABLES
  procState,    \* "running" | "exited"
  fault,        \* the process-level fault that ended the process
  connState,    \* per socket: "new" | "open" | "closed" | "refused"
  userOf,       \* socket.userId set by the auth middleware
  setup,        \* position of handleConnection per socket
  disc,         \* position of handleDisconnect per socket
  rooms,        \* socket.io adapter: room -> set of socket ids
  sids,         \* socket.io adapter: socket id -> set of rooms
  isOnline,     \* users.isOnline column
  lastPresence, \* last user:online / user:offline io.emit broadcast per user
  countAtOpen,  \* history, while handleConnection runs: the user's other
                \* live sockets at registration
  countAtClose, \* history, while handleDisconnect runs: the user's live
                \* sockets left at close
  roomsAtClose, \* history, while handleDisconnect runs: the number of
                \* channel rooms the socket's close removed
  offlineEmits, \* history: user:offline broadcasts made for this socket
  sends,        \* message:send handlers in arrival order
  messages,     \* message table: ids of stored messages
  inbox,        \* per socket: message:new payloads received, in order
  out,          \* room- and socket-targeted events emitted by the last step
  cred,         \* per socket: the token its handshake carried
  reported,     \* peer process: the users its last findOnlineUsers returned
  pubUp,        \* the publisher client's link to the broker is ready
  pubLog,       \* RedisManager.publish calls, in call order
  offlineQueue, \* ioredis offline queue of the publisher client
  delivered,    \* publishes the broker has received
  subscribedTo, \* channels the subscriber client is subscribed to
  pendingSubs,  \* RedisManager.subscribe calls awaiting the broker's reply
  listeners,    \* 'message' listeners on the subscriber client, by channel
  handled,      \* per publish: callback invocations on this process
  retryAttempts,\* publisher client: reconnect attempts since the link was lost
  retryDelay,   \* publisher client: delay (ms) of the pending reconnect
  failedLoginAttempts, \* users.failedLoginAttempts of one account
  locked,       \* users.lockedUntil of that account lies in the future
  logins,       \* AuthService.login calls for that account, in arrival order
  issued,       \* number of token pairs generateTokens has returned
  storedRefresh,\* Redis key refresh_token:<userId>: a pair's number, 0 absent
  blacklist,    \* access tokens with a Redis key blacklist:<token>
  loggedOut,    \* access tokens whose logout call returned successfully
  droppedRefresh, \* refresh tokens that were stored when such a logout ran
  superseded,   \* pairs issued before a successful password change
  result        \* what the most recent token operation returned

vars == <<procState, fault, connState, userOf, setup, disc, rooms, sids,
          isOnline, lastPresence, countAtOpen, countAtClose, roomsAtClose,
          offlineEmits, sends, messages, inbox, out, cred, reported,
          pubUp, pubLog, offlineQueue, delivered, subscribedTo, pendingSubs,
          listeners, handled, retryAttempts, retryDelay,
          failedLoginAttempts, locked, logins,
          issued, storedRefresh, blacklist, loggedOut, droppedRefresh,
          superseded, result>>

connVars == <<connState, userOf, setup, disc>>
roomVars == <<rooms, sids>>
presenceVars == <<isOnline, lastPresence>>
histVars == <<countAtOpen, countAtClose, roomsAtClose, offlineEmits>>
msgVars == <<sends, messages, inbox>>
procVars == <<procState, fault>>
loginVars == <<failedLoginAttempts, locked, logins>>
tokenVars == <<issued, storedRefresh, blacklist, loggedOut, droppedRefresh,
               superseded, result>>
authVars == <<cred, loginVars, tokenVars>>
peerVars == <<reported>>
retryVars == <<retryAttempts, retryDelay>>
busVars == <<pubUp, pubLog, offlineQueue, delivered, subscribedTo,
             pendingSubs, listeners, handled, retryVars>>
\* What the socket handlers never touch.
envVars == <<authVars, peerVars, busVars>>

NoFault == [kind |-> "none", origin |-> "none", by |-> 0]

\* An outbound event: `to` is the set of sockets it is written to.
Event(t, c, targets, ev, n) ==
  [type |-> t, by |-> c, to |-> targets, event |-> ev, ref |-> n]

\* RedisManager after connect(): the clients are ready, nothing has been
\* published or subscribed.
InitBus ==
  /\ pubUp = TRUE
  /\ pubLog = <<>>
  /\ offlineQueue = <<>>
  /\ delivered = {}
  /\ subscribedTo = {}
  /\ pendingSubs = <<>>
  /\ listeners = <<>>
  /\ handled = [i \in PubIds |-> 0]
  /\ retryAttempts = 0
  /\ retryDelay = 0

\* No peer report yet; a socket that is past its handshake carried a valid
\* token.
InitEnv ==
  /\ cred = [c \in Conns |-> IF connState[c] = "new" THEN "none" ELSE "valid"]
  /\ reported = {}
  /\ failedLoginAttempts = 0
  /\ locked = FALSE
  /\ logins = <<>>
  /\ issued = 0
  /\ storedRefresh = 0
  /\ blacklist = {}
  /\ loggedOut = {}
  /\ droppedRefresh = {}
  /\ superseded = {}
  /\ result = [op |-> "none", tok |-> 0, ok |-> FALSE]
  /\ InitBus

Init ==
  /\ procState = "running"
  /\ fault = NoFault
  /\ connState = [c \in Conns |-> "new"]
  /\ userOf = [c \in Conns |-> NoUser]
  /\ setup = [c \in Conns |-> "none"]
  /\ disc = [c \in Conns |-> "none"]
  /\ rooms = [r \in Rooms |-> {}]
  /\ sids = [c \in Conns |-> {}]
  /\ isOnline = [u \in Users |-> FALSE]
  /\ lastPresence = [u \in Users |-> "none"]
  /\ countAtOpen = [c \in Conns |-> 0]
  /\ countAtClose = [c \in Conns |-> 0]
  /\ roomsAtClose = [c \in Conns |-> 0]
  /\ offlineEmits = [c \in Conns |-> 0]
  /\ sends = <<>>
  /\ messages = {}
  /\ inbox = [c \in Conns |-> <<>>]
  /\ out = {}
  /\ InitEnv

\* --------------------------------------------------------------- helpers
\* Handlers run while the process is running.
Up == procState = "running"

OpenConns == {c \in Conns : connState[c] = "open"}

\* Live sockets of user u.
LiveConns(u) == {c \in OpenConns : userOf[c] = u}

LiveCount(u) == Cardinality(LiveConns(u))

\* Mutant of AddAllRooms: joining a room the socket is already in takes it
\* out again.
AddAllRoomsToggle(c, rs) ==
  [r \in Rooms |->
     IF r \in rs
       THEN IF c \in rooms[r] THEN rooms[r] \ {c} ELSE rooms[r] \cup {c}
       ELSE rooms[r]]

\* socket.io adapter addAll(id, rooms): both directions of the index.
AddAllRooms(c, rs) ==
  [r \in Rooms |-> IF r \in rs THEN rooms[r] \cup {c} ELSE rooms[r]]

AddAllSids(c, rs) == [sids EXCEPT ![c] = @ \cup rs]

\* Mutant of DelRooms: the leave takes every socket of the same user out of
\* the room.
DelRoomsOfUser(c, room) ==
  [rooms EXCEPT ![room] = {b \in @ : userOf[b] # userOf[c]}]

\* socket.io adapter del(id, room).
DelRooms(c, room) == [rooms EXCEPT ![room] = @ \ {c}]

\* Mutant of DelSids: the socket -> rooms direction is not updated.
DelSidsForgets(c, room) == sids

DelSids(c, room) == [sids EXCEPT ![c] = @ \ {room}]

\* socket.io adapter delAll(id), run by the socket's close.
DelAllRooms(c) == [r \in Rooms |-> rooms[r] \ {c}]

DelAllSids(c) == [sids EXCEPT ![c] = {}]

\* io.emit: every connected socket.
AllTargets == OpenConns

\* io.to(room): the connected sockets in the room.
RoomTargets(room) == rooms[room] \cap OpenConns

\* socket.to(room): the room without the emitting socket.
RoomTargetsExcept(room, c) == RoomTargets(room) \ {c}

\* socket.emit: written only while the socket's transport is open.
SelfTargets(c) == {c} \cap OpenConns

\* One broadcast of message:new: appended to each target's inbox.
Deliver(inb, targets, m) ==
  [c \in Conns |-> IF c \in targets THEN Append(inb[c], m) ELSE inb[c]]

\* process.on('unhandledRejection' | 'uncaughtException'): log the fault
\* and arm a one-second timer that calls process.exit(1).  The model takes
\* no handler step inside that log-flush window, so the fault and the exit
\* are one step: every socket, every handler in flight and the in-memory
\* room index are gone; the database rows and what clients have already
\* received stay.  The Redis clients' offline queue and listeners are
\* process memory too, and the broker drops the subscriptions of a
\* connection that is gone.
ProcessExit(kind, origin, c) ==
  /\ procState' = "exited"
  /\ fault' = [kind |-> kind, origin |-> origin, by |-> c]
  /\ connState' = [b \in Conns |->
                     IF connState[b] = "open" THEN "closed" ELSE connState[b]]
  /\ userOf' = [b \in Conns |-> NoUser]
  /\ setup' = [b \in Conns |-> "none"]
  /\ disc' = [b \in Conns |-> "none"]
  /\ rooms' = [r \in Rooms |-> {}]
  /\ sids' = [b \in Conns |-> {}]
  /\ countAtOpen' = [b \in Conns |-> 0]
  /\ countAtClose' = [b \in Conns |-> 0]
  /\ roomsAtClose' = [b \in Conns |-> 0]
  /\ out' = {}
  /\ offlineQueue' = <<>>
  /\ pendingSubs' = <<>>
  /\ listeners' = <<>>
  /\ subscribedTo' = {}
  /\ UNCHANGED <<presenceVars, offlineEmits, msgVars, authVars, peerVars,
                 pubUp, pubLog, delivered, handled, retryVars>>


\* -------------------------------------------------- connection lifecycle
\* What a handshake can carry: no token, a token jwt.verify rejects (bad
\* signature, expired, wrong type), a well-formed token that has been
\* blacklisted, or a well-formed token that has not.
Tokens == {"missing", "invalid", "revoked", "valid"}

\* TokenManager.isTokenBlacklisted: redisManager.exists on the blacklist
\* key; when the lookup throws, the catch logs and returns false.
isTokenBlacklisted(tok, lookupFails) ==
  IF lookupFails THEN FALSE ELSE tok = "revoked"

\* jwt.config verifyAccessToken: TRUE when jwt.verify returns a payload of
\* type 'access'.
verifyAccessToken(tok) == tok \in {"revoked", "valid"}

\* TokenManager.verifyToken: TRUE when it returns the payload.
verifyToken(tok, lookupFails) ==
  /\ ~isTokenBlacklisted(tok, lookupFails)
  /\ verifyAccessToken(tok)

\* The io.use middleware calls next() without an error.
Authenticated(tok, lookupFails) ==
  /\ tok # "missing"
  /\ verifyToken(tok, lookupFails)

\* io.on('connection') -> registerEvents: handleConnection runs up to its
\* first collaborator await (personal room joined, status write issued) and
\* the listeners are registered.
Register(c, u) ==
  /\ connState' = [connState EXCEPT ![c] = "open"]
  /\ userOf' = [userOf EXCEPT ![c] = u]
  /\ countAtOpen' = [countAtOpen EXCEPT ![c] = LiveCount(u)]
  /\ rooms' = AddAllRooms(c, {UserRoom(u)})
  /\ sids' = AddAllSids(c, {UserRoom(u)})
  /\ setup' = [setup EXCEPT ![c] = "status"]
  /\ out' = {}
  /\ UNCHANGED <<disc, presenceVars, countAtClose, roomsAtClose,
                 offlineEmits, msgVars, procVars>>

\* next(new Error(...)): socket.io answers CONNECT_ERROR and the socket
\* never reaches the 'connection' listeners.
Refuse(c) ==
  /\ connState' = [connState EXCEPT ![c] = "refused"]
  /\ out' = {}
  /\ UNCHANGED <<userOf, setup, disc, roomVars, presenceVars, histVars,
                 msgVars, procVars>>

\* A client connects with token tok, whose subject is user u; lookupFails
\* says whether the blacklist lookup throws.  Socket ids are handed out in
\* order.
Handshake(c, u, tok, lookupFails) ==
  /\ Up
  /\ connState[c] = "new"
  /\ \A b \in Conns : b < c => connState[b] # "new"
  /\ cred' = [cred EXCEPT ![c] = tok]
  /\ IF Authenticated(tok, lookupFails) THEN Register(c, u) ELSE Refuse(c)
  /\ UNCHANGED <<loginVars, tokenVars, peerVars, busVars>>

\* A client with a valid token for user u connects.
Connect(c, u) == Handshake(c, u, "valid", FALSE)

\* userService.updateOnlineStatus(userId, true) resolves.
ConnStatusDone(c) ==
  /\ Up
  /\ setup[c] = "status"
  /\ isOnline' = [isOnline EXCEPT ![userOf[c]] = TRUE]
  /\ setup' = [setup EXCEPT ![c] = "channels"]
  /\ out' = {}
  /\ UNCHANGED <<connState, userOf, disc, roomVars, lastPresence, histVars,
                 msgVars, procVars>>
  /\ UNCHANGED envVars

\* A collaborator call of handleConnection rejects: the handler has no
\* try/catch and registerEvents drops its promise.
ConnFail(c) ==
  /\ Up
  /\ setup[c] \in {"status", "channels"}
  /\ ProcessExit("unhandledRejection", "connection", c)

\* channelService.getUserChannels resolves: join every channel room, then
\* io.emit('user:online').  Whether socket.join still indexes a socket that
\* has closed meanwhile depends on the socket.io build (lateJoin); the
\* handler then ends "late", on a socket that is gone.
ConnChannelsDone(c, lateJoin) ==
  /\ Up
  /\ setup[c] = "channels"
  /\ connState[c] = "open" => lateJoin
  /\ LET u == userOf[c]
         chans == {ChannelRoom(r) : r \in findUserChannels(u)}
         joins == connState[c] = "open" \/ lateJoin
     IN /\ rooms' = IF joins THEN AddAllRooms(c, chans) ELSE rooms
        /\ sids' = IF joins THEN AddAllSids(c, chans) ELSE sids
        /\ lastPresence' = [lastPresence EXCEPT ![u] = "online"]
  /\ setup' = [setup EXCEPT ![c] =
                 IF connState[c] = "open" THEN "done" ELSE "late"]
  /\ countAtOpen' = [countAtOpen EXCEPT ![c] = 0]
  /\ out' = {}
  /\ UNCHANGED <<connState, userOf, disc, isOnline, countAtClose,
                 roomsAtClose, offlineEmits, msgVars, procVars>>
  /\ UNCHANGED envVars

\* Mutant of Disconnect: 'disconnect' is handled again for a socket that
\* is already gone.
DisconnectAgain(c) ==
  /\ Up
  /\ connState[c] # "new"
  /\ disc[c] # "status"
  /\ roomsAtClose' = [roomsAtClose EXCEPT ![c] =
        Cardinality({r \in ChannelIds : ChannelRoom(r) \in sids[c]})]
  /\ countAtClose' = [countAtClose EXCEPT ![c] =
        Cardinality(LiveConns(userOf[c]) \ {c})]
  /\ rooms' = DelAllRooms(c)
  /\ sids' = DelAllSids(c)
  /\ connState' = [connState EXCEPT ![c] = "closed"]
  /\ disc' = [disc EXCEPT ![c] = "status"]
  /\ out' = {}
  /\ UNCHANGED <<userOf, setup, presenceVars, countAtOpen, offlineEmits,
                 msgVars, procVars>>
  /\ UNCHANGED envVars

\* Mutant of Disconnect: the close cancels the socket's message:send
\* handlers that are in flight.
DisconnectCancels(c) ==
  /\ Up
  /\ connState[c] = "open"
  /\ roomsAtClose' = [roomsAtClose EXCEPT ![c] =
        Cardinality({r \in ChannelIds : ChannelRoom(r) \in sids[c]})]
  /\ countAtClose' = [countAtClose EXCEPT ![c] = LiveCount(userOf[c]) - 1]
  /\ rooms' = DelAllRooms(c)
  /\ sids' = DelAllSids(c)
  /\ connState' = [connState EXCEPT ![c] = "closed"]
  /\ disc' = [disc EXCEPT ![c] = "status"]
  /\ sends' = [i \in DOMAIN sends |->
                 IF sends[i].conn = c /\ sends[i].pc \in {"member", "create"}
                   THEN [sends[i] EXCEPT !.pc = "failed"]
                   ELSE sends[i]]
  /\ out' = {}
  /\ UNCHANGED <<userOf, setup, presenceVars, countAtOpen, offlineEmits,
                 messages, inbox, procVars>>
  /\ UNCHANGED envVars

\* The socket closes: socket.io leaves all rooms, then fires 'disconnect';
\* handleDisconnect runs up to its status write.
Disconnect(c) ==
  /\ Up
  /\ connState[c] = "open"
  /\ roomsAtClose' = [roomsAtClose EXCEPT ![c] =
        Cardinality({r \in ChannelIds : ChannelRoom(r) \in sids[c]})]
  /\ countAtClose' = [countAtClose EXCEPT ![c] = LiveCount(userOf[c]) - 1]
  /\ rooms' = DelAllRooms(c)
  /\ sids' = DelAllSids(c)
  /\ connState' = [connState EXCEPT ![c] = "closed"]
  /\ disc' = [disc EXCEPT ![c] = "status"]
  /\ out' = {}
  /\ UNCHANGED <<userOf, setup, presenceVars, countAtOpen, offlineEmits,
                 msgVars, procVars>>
  /\ UNCHANGED envVars

\* userService.updateOnlineStatus(userId, false) resolves, then
\* io.emit('user:offline').
DiscStatusDone(c) ==
  /\ Up
  /\ disc[c] = "status"
  /\ LET u == userOf[c]
     IN /\ isOnline' = [isOnline EXCEPT ![u] = FALSE]
        /\ lastPresence' = [lastPresence EXCEPT ![u] = "offline"]
  /\ out' = {}
  /\ offlineEmits' = [offlineEmits EXCEPT ![c] = @ + 1]
  /\ disc' = [disc EXCEPT ![c] = "done"]
  /\ countAtClose' = [countAtClose EXCEPT ![c] = 0]
  /\ roomsAtClose' = [roomsAtClose EXCEPT ![c] = 0]
  /\ UNCHANGED <<connState, userOf, setup, roomVars, countAtOpen, msgVars,
                 procVars>>
  /\ UNCHANGED envVars

\* The status write of handleDisconnect rejects: no try/catch either.
DiscFail(c) ==
  /\ Up
  /\ disc[c] = "status"
  /\ ProcessExit("unhandledRejection", "disconnect", c)


\* ------------------------------------------------------- inbound events
\* socket.io dispatches a packet only to a connected socket.
Accepts(c) == Up /\ connState[c] = "open"

\* handleJoinChannel({channelId}): socket.join, then channel:joined to the
\* requesting socket (the acknowledgement is not recorded in `out`).
JoinChannel(c, r) ==
  /\ Accepts(c)
  /\ rooms' = AddAllRooms(c, {ChannelRoom(r)})
  /\ sids' = AddAllSids(c, {ChannelRoom(r)})
  /\ out' = {}
  /\ UNCHANGED <<connVars, presenceVars, histVars, msgVars, procVars>>
  /\ UNCHANGED envVars

\* handleLeaveChannel({channelId}): socket.leave, then channel:left.
LeaveChannel(c, r) ==
  /\ Accepts(c)
  /\ rooms' = DelRooms(c, ChannelRoom(r))
  /\ sids' = DelSids(c, ChannelRoom(r))
  /\ out' = {}
  /\ UNCHANGED <<connVars, presenceVars, histVars, msgVars, procVars>>
  /\ UNCHANGED envVars

\* handleTyping({channelId, isTyping}): socket.to(channel room).
Typing(c, r) ==
  /\ Accepts(c)
  /\ out' = {Event("user:typing", c,
                   RoomTargetsExcept(ChannelRoom(r), c), "", r)}
  /\ UNCHANGED <<connVars, roomVars, presenceVars, histVars, msgVars,
                 procVars>>
  /\ UNCHANGED envVars

\* handleMessageRead({messageId, channelId}): socket.to(channel room).
MessageRead(c, r) ==
  /\ Accepts(c)
  /\ out' = {Event("message:read", c,
                   RoomTargetsExcept(ChannelRoom(r), c), "", r)}
  /\ UNCHANGED <<connVars, roomVars, presenceVars, histVars, msgVars,
                 procVars>>
  /\ UNCHANGED envVars

\* handlePresenceUpdate({status}): io.emit('user:presence').
PresenceUpdate(c, st) ==
  /\ Accepts(c)
  /\ out' = {Event("user:presence", c, AllTargets, st, userOf[c])}
  /\ UNCHANGED <<connVars, roomVars, presenceVars, histVars, msgVars,
                 procVars>>
  /\ UNCHANGED envVars

\* The handlers that destructure `data` outside any try/catch.
UnguardedEvents == {"message:typing", "message:read", "presence:update"}

GuardedEvents == InboundEvents \ UnguardedEvents

\* An inbound event without payload: destructuring `data` throws a
\* TypeError.  In handleTyping / handleMessageRead (synchronous, no try)
\* it is an uncaught exception; in handlePresenceUpdate (async, no try) it
\* is an unhandled rejection.
Malformed(c, ev) ==
  /\ Accepts(c)
  /\ ev \in UnguardedEvents
  /\ ProcessExit(IF ev = "presence:update"
                   THEN "unhandledRejection"
                   ELSE "uncaughtException", ev, c)

\* The same inside handleSendMessage / handleJoinChannel /
\* handleLeaveChannel: the TypeError is thrown inside the try block and
\* becomes an error event to the sender.
MalformedGuarded(c, ev) ==
  /\ Accepts(c)
  /\ ev \in GuardedEvents
  /\ out' = {Event("error", c, SelfTargets(c), ev, 0)}
  /\ UNCHANGED <<connVars, roomVars, presenceVars, histVars, msgVars,
                 procVars>>
  /\ UNCHANGED envVars

\* ------------------------------------------------------- message:send
\* handleSendMessage starts: messageService.sendMessage issues
\* channelRepository.isUserMember.
Send(c, r) ==
  /\ Accepts(c)
  /\ Len(sends) < MaxSends
  /\ sends' = Append(sends, [conn |-> c, chan |-> r, pc |-> "member"])
  /\ out' = {}
  /\ UNCHANGED <<connVars, roomVars, presenceVars, histVars, messages,
                 inbox, procVars>>
  /\ UNCHANGED envVars

SendIds == 1..Len(sends)

SetPc(i, pc) == [sends EXCEPT ![i].pc = pc]

\* The error event of handleSendMessage's catch block.
SendError(i) ==
  Event("error", sends[i].conn, SelfTargets(sends[i].conn), "message:send", i)

\* isUserMember resolves: a non-member gets AuthorizationError, caught by
\* handleSendMessage; a member's message goes to messageRepository.create.
SendMemberDone(i) ==
  /\ Up
  /\ i \in SendIds
  /\ sends[i].pc = "member"
  /\ IF isUserMember(sends[i].chan, userOf[sends[i].conn])
       THEN /\ sends' = SetPc(i, "create")
            /\ out' = {}
       ELSE /\ sends' = SetPc(i, "rejected")
            /\ out' = {SendError(i)}
  /\ UNCHANGED <<connVars, roomVars, presenceVars, histVars, messages,
                 inbox, procVars>>
  /\ UNCHANGED envVars

\* Mutant of SendCreateDone: the handler goes on without the record being
\* stored.
SendCreateDoneNoStore(i, mention) ==
  /\ Up
  /\ i \in SendIds
  /\ sends[i].pc = "create"
  /\ sends' = SetPc(i, IF mention THEN "mentions" ELSE "count")
  /\ out' = {}
  /\ UNCHANGED <<connVars, roomVars, presenceVars, histVars, messages,
                 inbox, procVars>>
  /\ UNCHANGED envVars

\* messageRepository.create resolves: the record is stored.  The mention
\* loop awaits collaborators only when the content holds mentions.
SendCreateDone(i, mention) ==
  /\ Up
  /\ i \in SendIds
  /\ sends[i].pc = "create"
  /\ messages' = messages \cup {i}
  /\ sends' = SetPc(i, IF mention THEN "mentions" ELSE "count")
  /\ out' = {}
  /\ UNCHANGED <<connVars, roomVars, presenceVars, histVars, inbox,
                 procVars>>
  /\ UNCHANGED envVars

\* The mention loop resolves.
SendMentionsDone(i) ==
  /\ Up
  /\ i \in SendIds
  /\ sends[i].pc = "mentions"
  /\ sends' = SetPc(i, "count")
  /\ out' = {}
  /\ UNCHANGED <<connVars, roomVars, presenceVars, histVars, messages,
                 inbox, procVars>>
  /\ UNCHANGED envVars

\* Mutant of SendCountDone: both broadcasts leave the sender out.
SendCountDoneNoEcho(i) ==
  /\ Up
  /\ i \in SendIds
  /\ sends[i].pc = "count"
  /\ LET room == ChannelRoom(sends[i].chan)
         others == RoomTargetsExcept(room, sends[i].conn)
         byService == Deliver(inbox, others, i)
     IN /\ inbox' = Deliver(byService, others, i)
        /\ out' = {Event("message:new", sends[i].conn, others, "", i)}
  /\ sends' = SetPc(i, "done")
  /\ UNCHANGED <<connVars, roomVars, presenceVars, histVars, messages,
                 procVars>>
  /\ UNCHANGED envVars

\* incrementMessageCount resolves: sendMessage calls
\* socketManager.emitToChannel(channelId, 'message:new', message) and
\* returns; handleSendMessage then emits
\* io.to(`channel:${channelId}`).emit('message:new', message).
SendCountDone(i) ==
  /\ Up
  /\ i \in SendIds
  /\ sends[i].pc = "count"
  /\ LET room == ChannelRoom(sends[i].chan)
         byService == Deliver(inbox, RoomTargets(room), i)
     IN /\ inbox' = Deliver(byService, RoomTargets(room), i)
        /\ out' = {Event("message:new", sends[i].conn, RoomTargets(room),
                         "", i)}
  /\ sends' = SetPc(i, "done")
  /\ UNCHANGED <<connVars, roomVars, presenceVars, histVars, messages,
                 procVars>>
  /\ UNCHANGED envVars

\* Mutant of SendFail: the error is emitted to the channel's room instead
\* of the sender's socket.
SendFailBroadcast(i) ==
  /\ Up
  /\ i \in SendIds
  /\ sends[i].pc \in {"member", "create", "mentions", "count"}
  /\ sends' = SetPc(i, "failed")
  /\ out' = {Event("error", sends[i].conn,
                   RoomTargets(ChannelRoom(sends[i].chan)), "message:send", i)}
  /\ UNCHANGED <<connVars, roomVars, presenceVars, histVars, messages,
                 inbox, procVars>>
  /\ UNCHANGED envVars

\* Any collaborator call of sendMessage rejects: caught by
\* handleSendMessage, reported to the sender.
SendFail(i) ==
  /\ Up
  /\ i \in SendIds
  /\ sends[i].pc \in {"member", "create", "mentions", "count"}
  /\ sends' = SetPc(i, "failed")
  /\ out' = {SendError(i)}
  /\ UNCHANGED <<connVars, roomVars, presenceVars, histVars, messages,
                 inbox, procVars>>
  /\ UNCHANGED envVars

\* ---------------------------------------------------------- specification
\* Connection lifecycle and presence of up to MaxConns sockets: the
\* connection and disconnect handlers and the process-level faults.
Next ==
  \/ \E c \in Conns, u \in Users : Connect(c, u)
  \/ \E c \in Conns : ConnStatusDone(c)
  \/ \E c \in Conns : ConnFail(c)
  \/ \E c \in Conns, lateJoin \in BOOLEAN : ConnChannelsDone(c, lateJoin)
  \/ \E c \in Conns : Disconnect(c)
  \/ \E c \in Conns : DiscStatusDone(c)
  \/ \E c \in Conns : DiscFail(c)
  \/ \E c \in Conns, ev \in UnguardedEvents : Malformed(c, ev)

Spec == Init /\ [][Next]_vars

\* ---------------------------------------------------- room specification
\* The same lifecycle together with channel:join / channel:leave (with and
\* without payload), for the first RoomConns sockets.
NextRooms ==
  \/ \E c \in 1..RoomConns, u \in Users : Connect(c, u)
  \/ \E c \in Conns : ConnStatusDone(c)
  \/ \E c \in Conns : ConnFail(c)
  \/ \E c \in Conns, lateJoin \in BOOLEAN : ConnChannelsDone(c, lateJoin)
  \/ \E c \in Conns : Disconnect(c)
  \/ \E c \in Conns : DiscStatusDone(c)
  \/ \E c \in Conns : DiscFail(c)
  \/ \E c \in Conns, r \in ChannelIds : JoinChannel(c, r)
  \/ \E c \in Conns, r \in ChannelIds : LeaveChannel(c, r)
  \/ \E c \in Conns, ev \in GuardedEvents : MalformedGuarded(c, ev)
  \/ \E c \in Conns, ev \in UnguardedEvents : Malformed(c, ev)

SpecRooms == Init /\ [][NextRooms]_vars

\* ------------------------------------------------- messaging specification
\* The message pipeline is explored from the states in which the first
\* RoomConns sockets have completed handleConnection (each for some user,
\* each in its personal room and in the rooms of its user's channels) and
\* no handler is in flight.
SetUp(c) == c <= RoomConns

InitMsg ==
  /\ procState = "running"
  /\ fault = NoFault
  /\ userOf \in [Conns -> Users \cup {NoUser}]
  /\ \A c \in Conns : userOf[c] = NoUser <=> ~SetUp(c)
  /\ connState = [c \in Conns |-> IF SetUp(c) THEN "open" ELSE "new"]
  /\ setup = [c \in Conns |-> IF SetUp(c) THEN "done" ELSE "none"]
  /\ disc = [c \in Conns |-> "none"]
  /\ sids = [c \in Conns |->
               IF SetUp(c)
                 THEN {UserRoom(userOf[c])} \cup
                      {ChannelRoom(r) : r \in findUserChannels(userOf[c])}
                 ELSE {}]
  /\ rooms = [r \in Rooms |-> {c \in Conns : r \in sids[c]}]
  /\ isOnline = [u \in Users |-> \E c \in Conns : userOf[c] = u]
  /\ lastPresence = [u \in Users |->
                       IF isOnline[u] THEN "online" ELSE "none"]
  /\ countAtOpen = [c \in Conns |-> 0]
  /\ countAtClose = [c \in Conns |-> 0]
  /\ roomsAtClose = [c \in Conns |-> 0]
  /\ offlineEmits = [c \in Conns |-> 0]
  /\ sends = <<>>
  /\ messages = {}
  /\ inbox = [c \in Conns |-> <<>>]
  /\ out = {}
  /\ InitEnv

NextMsg ==
  \/ \E c \in Conns : Disconnect(c)
  \/ \E c \in Conns : DiscStatusDone(c)
  \/ \E c \in Conns, r \in ChannelIds : JoinChannel(c, r)
  \/ \E c \in Conns, r \in ChannelIds : LeaveChannel(c, r)
  \/ \E c \in Conns, r \in ChannelIds : Send(c, r)
  \/ \E i \in 1..MaxSends : SendMemberDone(i)
  \/ \E i \in 1..MaxSends, m \in BOOLEAN : SendCreateDone(i, m)
  \/ \E i \in 1..MaxSends : SendMentionsDone(i)
  \/ \E i \in 1..MaxSends : SendCountDone(i)
  \/ \E i \in 1..MaxSends : SendFail(i)

SpecMsg == InitMsg /\ [][NextMsg]_vars

\* The message pipeline with one message:send per socket.  Rooms only grow
\* here (channel:join without channel:leave), so every socket that could be
\* a receiver of a message:new stays one.
NextSendOnce ==
  \/ \E c \in Conns : Disconnect(c)
  \/ \E c \in Conns : DiscStatusDone(c)
  \/ \E c \in Conns, r \in ChannelIds : JoinChannel(c, r)
  \/ \E c \in Conns, r \in ChannelIds :
       Send(c, r) /\ \A i \in SendIds : sends[i].conn # c
  \/ \E i \in 1..MaxSends : SendMemberDone(i)
  \/ \E i \in 1..MaxSends, m \in BOOLEAN : SendCreateDone(i, m)
  \/ \E i \in 1..MaxSends : SendMentionsDone(i)
  \/ \E i \in 1..MaxSends : SendCountDone(i)
  \/ \E i \in 1..MaxSends : SendFail(i)

SpecSendOnce == InitMsg /\ [][NextSendOnce]_vars


\* --------------------------------------------------- signal specification
\* Typing, read and presence signals and payload-less events, explored from
\* the same set-up states as the message pipeline.
NextSignals ==
  \/ \E c \in Conns : Disconnect(c)
  \/ \E c \in Conns : DiscStatusDone(c)
  \/ \E c \in Conns, r \in ChannelIds : JoinChannel(c, r)
  \/ \E c \in Conns, r \in ChannelIds : LeaveChannel(c, r)
  \/ \E c \in Conns, r \in ChannelIds : Typing(c, r)
  \/ \E c \in Conns, r \in ChannelIds : MessageRead(c, r)
  \/ \E c \in Conns, st \in PresenceStatuses : PresenceUpdate(c, st)
  \/ \E c \in Conns, ev \in GuardedEvents : MalformedGuarded(c, ev)
  \/ \E c \in Conns, ev \in UnguardedEvents : Malformed(c, ev)

SpecSignals == InitMsg /\ [][NextSignals]_vars

\* ----------------------------------------------------- peer specification
\* Leaving and closing among MaxConns sockets that have all completed
\* handleConnection (the states InitMsg describes, with every socket set
\* up), and the user:typing signal as the room-targeted event.
InitPeers ==
  /\ procState = "running"
  /\ fault = NoFault
  /\ userOf \in [Conns -> Users]
  /\ connState = [c \in Conns |-> "open"]
  /\ setup = [c \in Conns |-> "done"]
  /\ disc = [c \in Conns |-> "none"]
  /\ sids = [c \in Conns |->
               {UserRoom(userOf[c])} \cup
               {ChannelRoom(r) : r \in findUserChannels(userOf[c])}]
  /\ rooms = [r \in Rooms |-> {c \in Conns : r \in sids[c]}]
  /\ isOnline = [u \in Users |-> \E c \in Conns : userOf[c] = u]
  /\ lastPresence = [u \in Users |->
                       IF isOnline[u] THEN "online" ELSE "none"]
  /\ countAtOpen = [c \in Conns |-> 0]
  /\ countAtClose = [c \in Conns |-> 0]
  /\ roomsAtClose = [c \in Conns |-> 0]
  /\ offlineEmits = [c \in Conns |-> 0]
  /\ sends = <<>>
  /\ messages = {}
  /\ inbox = [c \in Conns |-> <<>>]
  /\ out = {}
  /\ InitEnv

NextPeers ==
  \/ \E c \in Conns : Disconnect(c)
  \/ \E c \in Conns : DiscStatusDone(c)
  \/ \E c \in Conns, r \in ChannelIds : LeaveChannel(c, r)
  \/ \E c \in Conns, r \in ChannelIds : Typing(c, r)

SpecPeers == InitPeers /\ [][NextPeers]_vars

\* ------------------------------------------------- in-flight specification
\* One message:send among MaxConns set-up sockets (InitPeers) that may
\* close while the send is in flight.
NextInFlight ==
  \/ \E c \in Conns : Disconnect(c)
  \/ \E c \in Conns : DiscStatusDone(c)
  \/ \E c \in Conns, r \in ChannelIds : Send(c, r) /\ sends = <<>>
  \/ \E i \in 1..MaxSends : SendMemberDone(i)
  \/ \E i \in 1..MaxSends, m \in BOOLEAN : SendCreateDone(i, m)
  \/ \E i \in 1..MaxSends : SendMentionsDone(i)
  \/ \E i \in 1..MaxSends : SendCountDone(i)
  \/ \E i \in 1..MaxSends : SendFail(i)

SpecInFlight == InitPeers /\ [][NextInFlight]_vars

\* ------------------------------------------------ handshake specification
\* The lifecycle with every kind of handshake: any token, with the
\* blacklist lookup answering or throwing.
NextAuth ==
  \/ \E c \in Conns, u \in Users, tok \in Tokens, lookupFails \in BOOLEAN :
       Handshake(c, u, tok, lookupFails)
  \/ \E c \in Conns : ConnStatusDone(c)
  \/ \E c \in Conns, lateJoin \in BOOLEAN : ConnChannelsDone(c, lateJoin)
  \/ \E c \in Conns : Disconnect(c)
  \/ \E c \in Conns : DiscStatusDone(c)

SpecAuth == Init /\ [][NextAuth]_vars

\* ---------------------------------------------------- crash specification
\* UserRepository.findOnlineUsers: the ACTIVE users whose isOnline column
\* is true (every user of the model is ACTIVE).
findOnlineUsers == {u \in Users : isOnline[u]}

\* A peer process on the same database answers GET /users/online.
PeerReport ==
  /\ reported' = findOnlineUsers
  /\ UNCHANGED <<connVars, roomVars, presenceVars, histVars, msgVars,
                 procVars, out, authVars, busVars>>

\* The process ends with no handler running: killed by its host, or by the
\* forced process.exit(1) of handleGracefulShutdown.
Crash ==
  /\ Up
  /\ ProcessExit("forcedShutdown", "signal", 0)

\* The lifecycle of this process, its crash, and the peer's reports.
NextCrash ==
  \/ \E c \in Conns, u \in Users : Connect(c, u)
  \/ \E c \in Conns : ConnStatusDone(c)
  \/ \E c \in Conns, lateJoin \in BOOLEAN : ConnChannelsDone(c, lateJoin)
  \/ \E c \in Conns : Disconnect(c)
  \/ \E c \in Conns : DiscStatusDone(c)
  \/ Crash
  \/ PeerReport

SpecCrash == Init /\ [][NextCrash]_vars

\* -------------------------------------------------- pub/sub specification
\* RedisManager.publish / subscribe / unsubscribe on the publisher and
\* subscriber clients (ioredis, redisOptions).  getPublisher and
\* getSubscriber throw only while isConnected is false, which the manager
\* sets on the main client's 'end' event alone; retryStrategy always
\* returns a delay, so a lost link leaves the clients reconnecting and
\* these calls go through.
SubscribeCalls == Len(listeners) + Len(pendingSubs)

\* The callbacks one 'message' event on channel ch invokes: every listener
\* registered for ch, when the subscriber client is subscribed to ch.
Invocations(ch) ==
  IF ch \in subscribedTo
    THEN Cardinality({k \in 1..Len(listeners) : listeners[k] = ch})
    ELSE 0

\* The broker receives the publishes ids (as logged in log) and fans each
\* out to the subscriber client.
BrokerReceives(ids, log) ==
  /\ delivered' = delivered \cup ids
  /\ handled' = [i \in PubIds |->
                   IF i \in ids THEN handled[i] + Invocations(log[i].chan)
                                ELSE handled[i]]

\* redisManager.publish(ch, message): written to the broker when the link
\* is ready, else put on the client's offline queue
\* (enableOfflineQueue: true).
Publish(ch) ==
  /\ Up
  /\ Len(pubLog) < MaxPubs
  /\ LET i == Len(pubLog) + 1
         log == Append(pubLog, [chan |-> ch, down |-> ~pubUp])
     IN /\ pubLog' = log
        /\ IF pubUp
             THEN /\ BrokerReceives({i}, log)
                  /\ UNCHANGED offlineQueue
             ELSE /\ offlineQueue' = Append(offlineQueue, i)
                  /\ UNCHANGED <<delivered, handled>>
  /\ UNCHANGED <<connVars, roomVars, presenceVars, histVars, msgVars,
                 procVars, out, authVars, peerVars, pubUp, subscribedTo,
                 pendingSubs, listeners>>
  /\ UNCHANGED retryVars

RetryStepMs == 50
RetryCapMs == 2000

Min(a, b) == IF a < b THEN a ELSE b

\* Mutant of retryStrategy: the delay is not capped.
retryStrategyUncapped(times) == times * RetryStepMs

\* redisOptions.retryStrategy: Math.min(times * 50, 2000).
retryStrategy(times) == Min(times * RetryStepMs, RetryCapMs)

\* The publisher's link to the broker is lost; the client starts
\* reconnecting: ioredis calls retryStrategy(++retryAttempts) and arms the
\* reconnect timer.
LinkDown ==
  /\ Up
  /\ pubUp
  /\ pubUp' = FALSE
  /\ retryAttempts' = retryAttempts + 1
  /\ retryDelay' = retryStrategy(retryAttempts + 1)
  /\ UNCHANGED <<connVars, roomVars, presenceVars, histVars, msgVars,
                 procVars, out, authVars, peerVars, pubLog, offlineQueue,
                 delivered, subscribedTo, pendingSubs, listeners, handled>>

\* A reconnect attempt fails: the next one is scheduled after
\* retryStrategy(++retryAttempts).
RetryFails ==
  /\ Up
  /\ ~pubUp
  /\ retryAttempts < MaxAttempts
  /\ retryAttempts' = retryAttempts + 1
  /\ retryDelay' = retryStrategy(retryAttempts + 1)
  /\ UNCHANGED <<connVars, roomVars, presenceVars, histVars, msgVars,
                 procVars, out, authVars, peerVars, pubUp, pubLog,
                 offlineQueue, delivered, subscribedTo, pendingSubs,
                 listeners, handled>>

\* A reconnect attempt succeeds: the attempt counter starts over and, on
\* 'ready', the client sends its offline queue.
LinkBack ==
  /\ Up
  /\ ~pubUp
  /\ pubUp' = TRUE
  /\ retryAttempts' = 0
  /\ retryDelay' = 0
  /\ BrokerReceives({offlineQueue[k] : k \in 1..Len(offlineQueue)}, pubLog)
  /\ offlineQueue' = <<>>
  /\ UNCHANGED <<connVars, roomVars, presenceVars, histVars, msgVars,
                 procVars, out, authVars, peerVars, pubLog, subscribedTo,
                 pendingSubs, listeners>>

\* maxRetriesPerRequest reconnect attempts have failed: the client rejects
\* the queued commands and empties the queue.
RetriesExhausted ==
  /\ Up
  /\ ~pubUp
  /\ offlineQueue # <<>>
  /\ offlineQueue' = <<>>
  /\ UNCHANGED <<connVars, roomVars, presenceVars, histVars, msgVars,
                 procVars, out, authVars, peerVars, pubUp, pubLog, delivered,
                 subscribedTo, pendingSubs, listeners, handled>>
  /\ UNCHANGED retryVars

\* redisManager.subscribe(ch, callback) up to its await: SUBSCRIBE is sent
\* and the broker subscribes the client.
Subscribe(ch) ==
  /\ Up
  /\ SubscribeCalls < MaxSubs
  /\ subscribedTo' = subscribedTo \cup {ch}
  /\ pendingSubs' = Append(pendingSubs, ch)
  /\ UNCHANGED <<connVars, roomVars, presenceVars, histVars, msgVars,
                 procVars, out, authVars, peerVars, pubUp, pubLog,
                 offlineQueue, delivered, listeners, handled>>
  /\ UNCHANGED retryVars

\* The await of the oldest subscribe call resumes: one more 'message'
\* listener on the subscriber client, filtering on its channel.
SubscribeAcked ==
  /\ Up
  /\ pendingSubs # <<>>
  /\ listeners' = Append(listeners, Head(pendingSubs))
  /\ pendingSubs' = Tail(pendingSubs)
  /\ UNCHANGED <<connVars, roomVars, presenceVars, histVars, msgVars,
                 procVars, out, authVars, peerVars, pubUp, pubLog,
                 offlineQueue, delivered, subscribedTo, handled>>
  /\ UNCHANGED retryVars

\* redisManager.unsubscribe(ch): UNSUBSCRIBE is sent; no listener is
\* removed.
Unsubscribe(ch) ==
  /\ Up
  /\ subscribedTo' = subscribedTo \ {ch}
  /\ UNCHANGED <<connVars, roomVars, presenceVars, histVars, msgVars,
                 procVars, out, authVars, peerVars, pubUp, pubLog,
                 offlineQueue, delivered, pendingSubs, listeners, handled>>
  /\ UNCHANGED retryVars

NextBus ==
  \/ \E ch \in Topics : Publish(ch)
  \/ LinkDown
  \/ LinkBack
  \/ RetriesExhausted
  \/ \E ch \in Topics : Subscribe(ch)
  \/ SubscribeAcked
  \/ \E ch \in Topics : Unsubscribe(ch)

SpecBus == Init /\ [][NextBus]_vars

\* The publisher client's reconnect loop alone.
NextRetry ==
  \/ LinkDown
  \/ RetryFails
  \/ LinkBack

SpecRetry == Init /\ [][NextRetry]_vars

\* ---------------------------------------------------- login specification
\* AuthService.login for one account, while a lock that has been set has
\* not yet expired (30 minutes).  Each call is a sequence of awaits on the
\* user row: read, compare, then increment (and lock) or reset.
LockAfter == 4

LoginIds == 1..Len(logins)

SetLoginPc(i, pc) == [logins EXCEPT ![i].pc = pc]

\* login(data): findByEmailOrUsername resolves with the row as it is now;
\* a row that isAccountLocked() is turned away at once.
Login(pw) ==
  /\ Len(logins) < MaxLogins
  /\ logins' = Append(logins,
                  [pw |-> pw, read |-> failedLoginAttempts,
                   pc |-> IF locked THEN "denied" ELSE "compare"])
  /\ UNCHANGED <<connVars, roomVars, presenceVars, histVars, msgVars,
                 procVars, out, cred, failedLoginAttempts, locked, tokenVars,
                 peerVars, busVars>>

\* user.comparePassword resolves: a wrong password issues
\* incrementFailedLoginAttempts, the right one resetFailedLoginAttempts.
LoginCompared(i) ==
  /\ i \in LoginIds
  /\ logins[i].pc = "compare"
  /\ logins' = SetLoginPc(i, IF logins[i].pw THEN "reset" ELSE "increment")
  /\ UNCHANGED <<connVars, roomVars, presenceVars, histVars, msgVars,
                 procVars, out, cred, failedLoginAttempts, locked, tokenVars,
                 peerVars, busVars>>

\* incrementFailedLoginAttempts resolves (an atomic increment of the
\* column); the handler then tests the count it read at the start:
\* user.failedLoginAttempts >= 4.
IncrementDone(i) ==
  /\ i \in LoginIds
  /\ logins[i].pc = "increment"
  /\ failedLoginAttempts' = failedLoginAttempts + 1
  /\ logins' = SetLoginPc(i, IF logins[i].read >= LockAfter
                               THEN "lock" ELSE "failed")
  /\ UNCHANGED <<connVars, roomVars, presenceVars, histVars, msgVars,
                 procVars, out, cred, locked, tokenVars, peerVars, busVars>>

\* lockAccount resolves: lockedUntil is set.
LockDone(i) ==
  /\ i \in LoginIds
  /\ logins[i].pc = "lock"
  /\ locked' = TRUE
  /\ logins' = SetLoginPc(i, "failed")
  /\ UNCHANGED <<connVars, roomVars, presenceVars, histVars, msgVars,
                 procVars, out, cred, failedLoginAttempts, tokenVars, peerVars,
                 busVars>>

\* resetFailedLoginAttempts resolves: the count is 0 and lockedUntil null;
\* the login goes on to succeed.
ResetDone(i) ==
  /\ i \in LoginIds
  /\ logins[i].pc = "reset"
  /\ failedLoginAttempts' = 0
  /\ locked' = FALSE
  /\ logins' = SetLoginPc(i, "ok")
  /\ UNCHANGED <<connVars, roomVars, presenceVars, histVars, msgVars,
                 procVars, out, cred, tokenVars, peerVars, busVars>>

NextLogin ==
  \/ \E pw \in BOOLEAN : Login(pw)
  \/ \E i \in 1..MaxLogins : LoginCompared(i)
  \/ \E i \in 1..MaxLogins : IncrementDone(i)
  \/ \E i \in 1..MaxLogins : LockDone(i)
  \/ \E i \in 1..MaxLogins : ResetDone(i)

SpecLogin == Init /\ [][NextLogin]_vars

\* ---------------------------------------------------- token specification
\* TokenManager and the AuthService operations that revoke tokens, for one
\* user.  generateTokens returns the access and the refresh token of one
\* pair; pairs are numbered in the order they are issued and no token has
\* expired yet.  Every Redis command of an operation may fail.
TokenUser == 1

TokenIds == 1..issued

Returned(op, tok, ok) == [op |-> op, tok |-> tok, ok |-> ok]

\* What verifyToken sees of an access token of this user.
TokenKind(t) == IF t \in blacklist THEN "revoked" ELSE "valid"

\* generateTokens (login, register): signs a pair and stores its refresh
\* token under the user's key; a failed set makes the call throw.
GenerateTokens(setFails) ==
  /\ issued < MaxTokens
  /\ IF setFails
        THEN /\ result' = Returned("generate", 0, FALSE)
             /\ UNCHANGED <<issued, storedRefresh>>
        ELSE /\ issued' = issued + 1
             /\ storedRefresh' = issued + 1
             /\ result' = Returned("generate", issued + 1, TRUE)
  /\ UNCHANGED <<connVars, roomVars, presenceVars, histVars, msgVars,
                 procVars, out, cred, loginVars, blacklist, loggedOut,
                 droppedRefresh, superseded, peerVars, busVars>>

\* verifyToken(token) for an access token of the user.
VerifyToken(t, lookupFails) ==
  /\ t \in TokenIds
  /\ result' = Returned("verify", t, verifyToken(TokenKind(t), lookupFails))
  /\ UNCHANGED <<connVars, roomVars, presenceVars, histVars, msgVars,
                 procVars, out, cred, loginVars, issued, storedRefresh,
                 blacklist, loggedOut, droppedRefresh, superseded, peerVars,
                 busVars>>

\* refreshAccessToken(refreshToken): the token must be the stored one;
\* then generateTokens issues the next pair.  Any failure throws.
RefreshAccessToken(t, getFails, setFails) ==
  /\ t \in TokenIds
  /\ IF ~getFails /\ storedRefresh = t /\ ~setFails
        THEN /\ issued < MaxTokens
             /\ issued' = issued + 1
             /\ storedRefresh' = issued + 1
             /\ result' = Returned("refresh", t, TRUE)
        ELSE /\ result' = Returned("refresh", t, FALSE)
             /\ UNCHANGED <<issued, storedRefresh>>
  /\ UNCHANGED <<connVars, roomVars, presenceVars, histVars, msgVars,
                 procVars, out, cred, loginVars, blacklist, loggedOut,
                 droppedRefresh, superseded, peerVars, busVars>>

\* logout(userId, token): revokeRefreshToken throws when the delete fails
\* and logout rethrows; blacklistToken only logs a failed set; then the
\* user's isOnline column is cleared and logout returns.
Logout(t, deleteFails, setFails) ==
  /\ t \in TokenIds
  /\ IF deleteFails
        THEN /\ result' = Returned("logout", t, FALSE)
             /\ UNCHANGED <<storedRefresh, blacklist, loggedOut,
                            droppedRefresh, presenceVars>>
        ELSE /\ storedRefresh' = 0
             /\ blacklist' = IF setFails THEN blacklist
                                         ELSE blacklist \cup {t}
             /\ isOnline' = [isOnline EXCEPT ![TokenUser] = FALSE]
             /\ loggedOut' = loggedOut \cup {t}
             /\ droppedRefresh' = droppedRefresh \cup ({storedRefresh} \ {0})
             /\ result' = Returned("logout", t, TRUE)
             /\ UNCHANGED lastPresence
  /\ UNCHANGED <<connVars, roomVars, histVars, msgVars, procVars, out, cred,
                 loginVars, issued, superseded, peerVars, busVars>>

\* revokeAllUserTokens(userId): revokeRefreshToken and nothing else.
revokeAllUserTokens(deleteFails) ==
  IF deleteFails
    THEN /\ result' = Returned("password", 0, FALSE)
         /\ UNCHANGED <<storedRefresh, superseded>>
    ELSE /\ storedRefresh' = 0
         /\ superseded' = TokenIds
         /\ result' = Returned("password", 0, TRUE)

\* resetPassword / changePassword: once the new password is written the
\* handler calls revokeAllUserTokens and fails if that throws.
PasswordChanged(deleteFails) ==
  /\ issued > 0
  /\ revokeAllUserTokens(deleteFails)
  /\ UNCHANGED <<connVars, roomVars, presenceVars, histVars, msgVars,
                 procVars, out, cred, loginVars, issued, blacklist, loggedOut,
                 droppedRefresh, peerVars, busVars>>

NextTokens ==
  \/ \E f \in BOOLEAN : GenerateTokens(f)
  \/ \E t \in 1..MaxTokens, f \in BOOLEAN : VerifyToken(t, f)
  \/ \E t \in 1..MaxTokens, f, g \in BOOLEAN : RefreshAccessToken(t, f, g)
  \/ \E t \in 1..MaxTokens, f, g \in BOOLEAN : Logout(t, f, g)
  \/ \E f \in BOOLEAN : PasswordChanged(f)

SpecTokens == Init /\ [][NextTokens]_vars

\* ================================================================ claims
\* No handleConnection / handleDisconnect is in flight.
Quiescent ==
  /\ procState = "running"
  /\ \A c \in Conns : setup[c] \in {"none", "done", "late"}
  /\ \A c \in Conns : disc[c] \in {"none", "done"}

\* The user is presented as offline: the row says so and the last presence
\* broadcast (if any) was user:offline.
Offline(u) == ~isOnline[u] /\ lastPresence[u] # "online"

\* C1: at every quiescent point a user is offline if and only if the user
\* has no live connection.
C1_OfflineIffNoConnection ==
  Quiescent => \A u \in Users : Offline(u) <=> LiveCount(u) = 0

\* C2: user:online is emitted only for the connection that took the user's
\* connection count from 0 to 1, user:offline only for the one that took it
\* from 1 to 0.
C2_PresenceEventsOnlyOnEdges ==
  [][\A c \in Conns :
       /\ (setup[c] = "channels" /\ setup'[c] \in {"done", "late"})
            => countAtOpen[c] = 0
       /\ (disc[c] = "status" /\ disc'[c] = "done")
            => countAtClose[c] = 0]_vars

\* Occurrences of message m in a connection's inbox.
Received(c, m) == Cardinality({k \in 1..Len(inbox[c]) : inbox[c][k] = m})

\* C3: one message:send never produces two message:new deliveries to the
\* same connection.
C3_AtMostOnceDelivery ==
  \A c \in Conns : \A m \in 1..MaxSends : Received(c, m) <= 1

\* The directory authorizes user u for channel r.
Authorized(r, u) == u \in ChannelMembers(r) \/ ~ChannelPrivate(r)

\* C4: a connection is in a channel room, and is sent that channel's
\* user:typing / message:read, only if the directory authorizes its user
\* for the channel.
C4_RoomOnlyIfAuthorized ==
  /\ \A c \in Conns : \A r \in ChannelIds :
       c \in rooms[ChannelRoom(r)] => Authorized(r, userOf[c])
  /\ \A e \in out :
       e.type \in {"user:typing", "message:read"} =>
         \A c \in e.to : Authorized(e.ref, userOf[c])

\* An error event for message:send written to (at most) the sender of i.
ErrorToSender(e, i) ==
  /\ e.type = "error"
  /\ e.event = "message:send"
  /\ e.by = sends[i].conn
  /\ e.to = {sends[i].conn} \cap OpenConns

\* C5: a message:send by a connection whose user is not a member of the
\* channel stores nothing, delivers no message:new (neither when it is
\* rejected nor later) and answers the sender with an error event for
\* message:send.
C5_NonMemberSendRejected ==
  [][\A i \in SendIds :
       /\ (/\ sends[i].pc = "member"
           /\ userOf[sends[i].conn] \notin ChannelMembers(sends[i].chan)
           /\ sends'[i].pc # "member")
          => /\ sends'[i].pc \in {"rejected", "failed"}
             /\ messages' = messages
             /\ inbox' = inbox
             /\ \E e \in out' : ErrorToSender(e, i)
             /\ \A e \in out' : e.type # "message:new"
       /\ userOf[sends[i].conn] \notin ChannelMembers(sends[i].chan)
          => /\ i \notin messages'
             /\ \A c \in Conns : \A k \in 1..Len(inbox'[c]) :
                  inbox'[c][k] # i]_vars

\* A non-member's send was rejected while the sender itself sat in the
\* channel's room and the error reached the sender.
C5_Witness ==
  \E i \in SendIds :
    /\ sends[i].pc = "rejected"
    /\ userOf[sends[i].conn] \notin ChannelMembers(sends[i].chan)
    /\ sends[i].conn \in rooms[ChannelRoom(sends[i].chan)]
    /\ i \notin messages
    /\ \A c \in Conns : Received(c, i) = 0
    /\ \E e \in out : ErrorToSender(e, i) /\ e.to = {sends[i].conn}

\* C6: a failing collaborator call during connection setup or disconnect
\* handling never terminates the server process.
C6_CollaboratorFailureNotFatal ==
  fault.origin \in {"connection", "disconnect"} => procState = "running"

\* C7: a payload-less event closes the sending connection only: the
\* process keeps running and every other connection keeps its registration
\* and rooms.
C7_MalformedClosesOnlySender ==
  [][\A c \in Conns : \A ev \in UnguardedEvents :
       Malformed(c, ev) =>
         /\ procState' = "running"
         /\ connState'[c] = "closed"
         /\ \A b \in Conns \ {c} :
              connState'[b] = connState[b] /\ sids'[b] = sids[b]]_vars

\* Position of the first message:new of m in c's inbox (0: none).
FirstAt(c, m) ==
  IF Received(c, m) = 0 THEN 0
  ELSE CHOOSE k \in 1..Len(inbox[c]) :
         inbox[c][k] = m /\ \A j \in 1..(k - 1) : inbox[c][j] # m

\* C8: two message:send events of one connection to one channel reach every
\* observer in the order they were sent.
C8_PerConnectionOrder ==
  \A i, j \in SendIds :
    (i < j /\ sends[i].conn = sends[j].conn /\ sends[i].chan = sends[j].chan)
    => \A c \in Conns :
         (Received(c, i) > 0 /\ Received(c, j) > 0)
           => FirstAt(c, i) < FirstAt(c, j)

\* C9: the close of an established connection leaves it in no room; its
\* disconnect handling emits user:offline exactly once, on completion, and
\* sets the user offline; afterwards nothing more happens for that
\* connection.
C9_DisconnectCascadeOnce ==
  [][\A c \in Conns :
       /\ (connState[c] = "open" /\ connState'[c] = "closed")
            => sids'[c] = {} /\ \A r \in Rooms : c \notin rooms'[r]
       /\ (connState'[c] = "closed" /\ setup'[c] = "done") => sids'[c] = {}
       /\ offlineEmits'[c] <= 1
       /\ offlineEmits'[c] # offlineEmits[c]
            => disc[c] = "status" /\ disc'[c] = "done"
       /\ (disc[c] = "status" /\ disc'[c] = "done")
            => /\ offlineEmits'[c] = 1
               /\ ~isOnline'[userOf[c]]
               /\ lastPresence'[userOf[c]] = "offline"
       /\ (disc[c] = "done" /\ procState' = "running")
            => /\ disc'[c] = "done"
               /\ connState'[c] = "closed"
               /\ offlineEmits'[c] = 1]_vars

\* The only connection of its user closed while in two channel rooms, is in
\* no room any more and its disconnect handling is under way.
C9_Witness ==
  \E c \in Conns :
    /\ connState[c] = "closed"
    /\ setup[c] = "done"
    /\ disc[c] = "status"
    /\ roomsAtClose[c] >= 2
    /\ countAtClose[c] = 0
    /\ sids[c] = {}
    /\ offlineEmits[c] = 0

C11_MembershipPerConnection ==
  /\ [][\A c2 \in Conns :
          (\/ sids'[c2] # sids[c2]
           \/ \E room \in Rooms :
                (c2 \in rooms'[room]) # (c2 \in rooms[room]))
          => \/ connState'[c2] # connState[c2]
             \/ \E r \in ChannelIds : JoinChannel(c2, r)
             \/ \E r \in ChannelIds : LeaveChannel(c2, r)]_vars
  /\ [](\A e \in out :
          e.type = "user:typing" =>
            \A c2 \in OpenConns \ {e.by} :
              ChannelRoom(e.ref) \in sids[c2] => c2 \in e.to)

\* Two sockets of one user: one has left the room of a channel of the user
\* (or has closed), the other is still in it and was just sent that room's
\* user:typing.
C11_Witness ==
  \E c1, c2 \in Conns : \E r \in ChannelIds :
    /\ c1 # c2
    /\ userOf[c1] = userOf[c2]
    /\ r \in findUserChannels(userOf[c1])
    /\ ChannelRoom(r) \notin sids[c1]
    /\ connState[c2] = "open"
    /\ c2 \in rooms[ChannelRoom(r)]
    /\ \E e \in out : e.type = "user:typing" /\ e.ref = r /\ c2 \in e.to

\* C12: channel:join and channel:leave are idempotent: in the state a
\* handled channel:join (channel:leave) leaves behind, handling the same
\* event again would produce the same room memberships.
C12_JoinLeaveIdempotent ==
  [][\A c \in Conns : \A r \in ChannelIds :
       /\ JoinChannel(c, r)
            => /\ (AddAllRooms(c, {ChannelRoom(r)}))' = rooms'
               /\ (AddAllSids(c, {ChannelRoom(r)}))' = sids'
       /\ LeaveChannel(c, r)
            => /\ (DelRooms(c, ChannelRoom(r)))' = rooms'
               /\ (DelSids(c, ChannelRoom(r)))' = sids']_vars

\* A socket sits in the room of every channel although its user is not a
\* member of every channel: joins have been handled, for rooms it was in
\* and for rooms it was not in.
C12_Witness ==
  \E c \in Conns :
    /\ connState[c] = "open"
    /\ setup[c] = "done"
    /\ findUserChannels(userOf[c]) # ChannelIds
    /\ \A r \in ChannelIds :
         ChannelRoom(r) \in sids[c] /\ c \in rooms[ChannelRoom(r)]

C20_SendOnlyFromRoom ==
  [][\A i \in SendIds :
       (/\ sends[i].pc = "member"
        /\ sends'[i].pc # "member"
        /\ sends[i].conn \notin rooms[ChannelRoom(sends[i].chan)])
       => sends'[i].pc \in {"rejected", "failed"}]_vars

\* The socket is in no room, in either direction of the index.
InNoRoom(c) == sids[c] = {} /\ \A room \in Rooms : c \notin rooms[room]

C13_CrashedUserGoesOffline ==
  (procState = "exited" /\ reported = findOnlineUsers) => reported = {}

RefusedTokens == {"missing", "invalid", "revoked"}

\* C14: a socket whose handshake carries no token, an invalid token or a
\* revoked token never becomes a registered connection (no handler runs for
\* it, it is in no room, it has no userId, its handshake changes no user's
\* presence), and the userId of a registered connection never changes.
C14_OnlyAuthenticatedRegister ==
  /\ [](\A c \in Conns : cred[c] \in RefusedTokens =>
          /\ connState[c] = "refused"
          /\ setup[c] = "none" /\ disc[c] = "none"
          /\ userOf[c] = NoUser
          /\ InNoRoom(c))
  /\ [][\A c \in Conns :
          /\ (cred[c] = "none" /\ cred'[c] \in RefusedTokens)
               => UNCHANGED presenceVars
          /\ connState[c] \in {"open", "closed"} => userOf[c] \in Users
          /\ userOf[c] # NoUser => userOf'[c] = userOf[c]]_vars
\* C15: a publish issued while the broker link is down is lost: it never
\* reaches the broker, whether at once or from a local queue once the link
\* is back, and no subscriber's handler ever runs for it.
C15_OutagePublishLost ==
  \A i \in 1..Len(pubLog) :
    pubLog[i].down => i \notin delivered /\ handled[i] = 0

\* The process has a handler subscribed to ch: subscribe(ch) has returned
\* and no unsubscribe(ch) came after.
HandlerSubscribed(ch) ==
  /\ ch \in subscribedTo
  /\ \E k \in 1..Len(listeners) : listeners[k] = ch

\* C16: whatever subscribe and unsubscribe calls came before, a message
\* that reaches the broker invokes the handler subscribed to its channel
\* exactly once on this process (and none when no handler is subscribed).
C16_HandlerOncePerMessage ==
  [][\A i \in PubIds :
       (i \notin delivered /\ i \in delivered')
         => handled'[i] = IF HandlerSubscribed(pubLog'[i].chan) THEN 1 ELSE 0]_vars
\* C21: membership check, then store, then publish: a send reaches
\* messageRepository.create only from a passed membership check, a record
\* is stored only by a send that is at its create step, and every
\* message:new, emitted or received, is for a message that was stored
\* before the step that emits it.
C21_StoredBeforeEmitted ==
  /\ [](\A e \in out : e.type = "message:new" => e.ref \in messages)
  /\ [](\A c \in Conns : \A k \in 1..Len(inbox[c]) : inbox[c][k] \in messages)
  /\ [][\A i \in SendIds :
          /\ (sends[i].pc # "create" /\ sends'[i].pc = "create")
               => /\ sends[i].pc = "member"
                  /\ isUserMember(sends[i].chan, userOf[sends[i].conn])
          /\ (i \notin messages /\ i \in messages') => sends[i].pc = "create"
          /\ (\E c \in Conns : Received(c, i)' > Received(c, i))
               => i \in messages]_vars

\* A stored message has just been emitted as message:new and some socket
\* holds it.
C21_Witness ==
  \E i \in SendIds : \E c \in Conns :
    /\ i \in messages
    /\ Received(c, i) > 0
    /\ \E e \in out : e.type = "message:new" /\ e.ref = i /\ c \in e.to
\* The sender of send i has closed.
SenderGone(i) == connState[sends[i].conn] = "closed"

\* C22: a sender's close does not cancel its message:send in flight: the
\* close leaves the send and the message table as they are; with the
\* sender gone, a passed membership check still leads to the create, a
\* completed create stores the record, and the completed send delivers
\* message:new to every open socket in the room; a closed socket receives
\* nothing.
C22_InFlightSendCompletes ==
  [][/\ \A c \in Conns :
          /\ (connState[c] = "open" /\ connState'[c] = "closed")
               => sends' = sends /\ messages' = messages
          /\ connState[c] = "closed" => inbox'[c] = inbox[c]
     /\ \A i \in SendIds : SenderGone(i) =>
          /\ (sends[i].pc = "member" /\ sends'[i].pc \notin {"member", "failed"}
                /\ isUserMember(sends[i].chan, userOf[sends[i].conn]))
               => sends'[i].pc = "create"
          /\ (sends[i].pc = "create" /\ sends'[i].pc \notin {"create", "failed"})
               => i \in messages'
          /\ (sends[i].pc = "count" /\ sends'[i].pc = "done")
               => \A c2 \in RoomTargets(ChannelRoom(sends[i].chan)) :
                    Received(c2, i)' > Received(c2, i)]_vars

\* A send whose sender closed before its message:new was emitted is done: the
\* record is stored, another socket in the room holds the message:new and
\* the sender holds none.
C22_Witness ==
  \E i \in SendIds : \E c2 \in OpenConns :
    /\ sends[i].pc = "done"
    /\ SenderGone(i)
    /\ i \in messages
    /\ c2 # sends[i].conn
    /\ Received(c2, i) > 0
    /\ Received(sends[i].conn, i) = 0
\* C23: a user:typing or message:read that reaches a socket of a channel's
\* room comes from a connection that belongs to the channel (its user is a
\* member in the directory, or the connection is in the channel's room).
C23_SignalsOnlyFromMembers ==
  \A e \in out :
    (e.type \in {"user:typing", "message:read"} /\ e.to # {})
      => \/ isUserMember(e.ref, userOf[e.by])
         \/ ChannelRoom(e.ref) \in sids[e.by]
\* C27: a user's only connection closes while handleConnection is still
\* awaiting a collaborator: once handleConnection and handleDisconnect have
\* both finished, the user is stored offline and the last presence
\* broadcast for the user is user:offline.
C27_CloseDuringSetupEndsOffline ==
  \A c \in Conns :
    (/\ Up
     /\ connState[c] = "closed"
     /\ setup[c] = "late"
     /\ disc[c] = "done"
     /\ \A b \in Conns \ {c} : userOf[b] # userOf[c])
      => /\ ~isOnline[userOf[c]]
         /\ lastPresence[userOf[c]] = "offline"
\* C28: a connection is in the personal room of user u only if its userId
\* is u, channel:join and channel:leave never take an open connection out
\* of its own personal room, and an emit to user:<u> reaches only live
\* connections of u.
C28_PersonalRoomOnlyOwn ==
  \A c \in Conns : \A u \in Users :
    /\ c \in rooms[UserRoom(u)] => userOf[c] = u
    /\ UserRoom(u) \in sids[c] => userOf[c] = u
    /\ (connState[c] = "open" /\ userOf[c] = u) => c \in rooms[UserRoom(u)]
    /\ RoomTargets(UserRoom(u)) \subseteq LiveConns(u)

\* An open socket has handled a channel:join whose channelId is another
\* user's id and a channel:leave whose channelId is its own user's id: it
\* is in its own personal room and not in the other user's.
C28_Witness ==
  \E c \in OpenConns : \E u2 \in (Users \cap ChannelIds) \ {userOf[c]} :
    /\ userOf[c] \in ChannelIds
    /\ u2 \notin findUserChannels(userOf[c])
    /\ ChannelRoom(u2) \in sids[c]
    /\ userOf[c] \in findUserChannels(userOf[c])
    /\ setup[c] = "done"
    /\ ChannelRoom(userOf[c]) \notin sids[c]
    /\ c \in rooms[UserRoom(userOf[c])]
    /\ c \notin rooms[UserRoom(u2)]
\* C29: message:send is all-or-nothing towards the sender: a send that was
\* answered with the error event (rejected or failed) has stored no record
\* and has delivered no message:new to any connection.
C29_SendAllOrNothing ==
  \A i \in SendIds :
    sends[i].pc \in {"rejected", "failed"}
      => /\ i \notin messages
         /\ \A c \in Conns : Received(c, i) = 0
\* C24, as stated: from one reconnect attempt to the next the delay at
\* least doubles until it has reached the cap, and it never exceeds the
\* cap of 2000 ms.
C24_ExponentialBackoff ==
  /\ [](retryDelay <= RetryCapMs)
  /\ [][(retryAttempts >= 1 /\ retryAttempts' = retryAttempts + 1)
          => \/ retryDelay' >= 2 * retryDelay
             \/ retryDelay' = RetryCapMs]_vars

\* C24, amended: the first reconnect waits 50 ms, from one attempt to the
\* next the delay grows by 50 ms until it has reached the cap, and it never
\* exceeds the cap of 2000 ms.
C24_LinearBackoffCapped ==
  /\ [](retryDelay <= RetryCapMs)
  /\ [][/\ (retryAttempts = 0 /\ retryAttempts' = 1)
              => retryDelay' = RetryStepMs
        /\ (retryAttempts >= 1 /\ retryAttempts' = retryAttempts + 1)
              => retryDelay' = Min(retryDelay + RetryStepMs, RetryCapMs)]_vars

\* The delay has reached the cap and a further attempt has failed.
C24_Witness ==
  /\ ~pubUp
  /\ retryAttempts * RetryStepMs > RetryCapMs + RetryStepMs
  /\ retryDelay = RetryCapMs
\* No login call is in flight.
LoginsIdle ==
  \A i \in LoginIds : logins[i].pc \in {"denied", "failed", "ok"}

\* C25: once 5 failed attempts have been recorded since the last
\* successful login and every login call has returned, the account is
\* locked; while it is locked no login succeeds and no failed attempt is
\* recorded; a successful login leaves the count at 0 and the lock
\* cleared.
C25_LockoutAfterFiveFailures ==
  /\ []((LoginsIdle /\ failedLoginAttempts >= LockAfter + 1) => locked)
  /\ [][/\ failedLoginAttempts' > failedLoginAttempts => ~locked
        /\ \A i \in LoginIds :
             (logins[i].pc # "ok" /\ logins'[i].pc = "ok")
               => ~locked /\ failedLoginAttempts' = 0 /\ ~locked']_vars
\* C26: after resetPassword or changePassword has succeeded, no access
\* token issued before it passes verifyToken and no refresh token issued
\* before it is accepted by refreshAccessToken.
C26_PasswordChangeRevokesAll ==
  (result.op \in {"verify", "refresh"} /\ result.tok \in superseded)
    => ~result.ok

\* C30: after logout(userId, token) has returned successfully, verifyToken
\* rejects that access token and refreshAccessToken rejects the refresh
\* token the user had, whether or not Redis fails during the logout or
\* during the later call.
C30_LogoutRevokes ==
  /\ (result.op = "verify" /\ result.tok \in loggedOut) => ~result.ok
  /\ (result.op = "refresh" /\ result.tok \in droppedRefresh) => ~result.ok
=============================================================================
